---- MODULE Spec2Model ----
(***************************************************************************)
(* A model of javascript/objectExpression.js: the expression nodes (Const, *)
(* Variable, the registered operations), their renderings, evaluation and  *)
(* differentiation, the bracketed parsers parsePrefix / parsePostfix and   *)
(* the flat stack parser parse.                                            *)
(*                                                                         *)
(* Text is a sequence of one-character strings; cursors are 0-based as in  *)
(* the source.  A JavaScript number held by a Const is [k, mant, exp10]:   *)
(* k = "int" is the integer mant * 10^exp10 (mant without trailing zeros), *)
(* k = "NaN" is NaN, k = "E" is Math.E.  Evaluation results are extended   *)
(* rationals <<n, d>> (d = 0: +-Infinity for n = +-1, NaN for n = 0); this *)
(* is exact where the doubles of the source are exact.                     *)
(***************************************************************************)
EXTENDS Integers, Sequences, FiniteSets, TLC

VARIABLES
    expression,  \* the text handed to the parser called last (or about to be)
    called,      \* the function called last, "none" before the first call
    res,         \* what that call gave
    tree,        \* the node under differentiation, rendering or re-parsing
    diffVar,     \* the argument of diff
    deriv        \* what diff returned

vars_ == <<expression, called, res, tree, diffVar, deriv>>

(***************************************************************************)
(* Bounds of the checked instances.                                        *)
(***************************************************************************)
MaxPieces == 5
MaxLexPieces == 4
MaxFlatTokens == 4
MaxNodes == 4

(***************************************************************************)
(* Characters and the strings of the source.                               *)
(***************************************************************************)
DecDigits == <<"0", "1", "2", "3", "4", "5", "6", "7", "8", "9">>
HexLetters == <<"a", "b", "c", "d", "e", "f">>
HexUpper == <<"A", "B", "C", "D", "E", "F">>

IsDecDigit(c) == \E i \in 1..10 : DecDigits[i] = c
IsHexDigit(c) == IsDecDigit(c) \/ (\E i \in 1..6 : HexLetters[i] = c \/ HexUpper[i] = c)
DecVal(c) == (CHOOSE i \in 1..10 : DecDigits[i] = c) - 1
HexVal(c) ==
    IF IsDecDigit(c) THEN DecVal(c)
    ELSE 9 + (CHOOSE i \in 1..6 : HexLetters[i] = c \/ HexUpper[i] = c)

S_plus == <<"+">>
S_minus == <<"-">>
S_negate == <<"n", "e", "g", "a", "t", "e">>
S_times == <<"*">>
S_divide == <<"/">>
S_pow == <<"p", "o", "w">>
S_log == <<"l", "o", "g">>
S_mean == <<"m", "e", "a", "n">>
S_var == <<"v", "a", "r">>
S_x == <<"x">>
S_y == <<"y">>
S_z == <<"z">>
S_Infinity == <<"I", "n", "f", "i", "n", "i", "t", "y">>
S_NaN == <<"N", "a", "N">>
S_E == <<"2", ".", "7", "1", "8", "2", "8", "1", "8", "2", "8", "4", "5", "9", "0", "4", "5">>
S_toString == <<"t", "o", "S", "t", "r", "i", "n", "g">>
S_constructor == <<"c", "o", "n", "s", "t", "r", "u", "c", "t", "o", "r">>
S_valueOf == <<"v", "a", "l", "u", "e", "O", "f">>
S_hasOwnProperty == <<"h", "a", "s", "O", "w", "n", "P", "r", "o", "p", "e", "r", "t", "y">>
S_proto == <<"_", "_", "p", "r", "o", "t", "o", "_", "_">>

\* const vars = ["x", "y", "z"]
vars == <<S_x, S_y, S_z>>

VarsIncludes(token) == \E i \in 1..Len(vars) : vars[i] = token
VarsIndexOf(name) == CHOOSE i \in 1..Len(vars) : vars[i] = name

\* /\s/ on one character of the alphabet of the model
IsWhitespaceChar(c) == c \in {" ", "\t", "\n", "\r"}

\* expression[i] for a 0-based i; "undefined" past the end
CharAt(s, i) == IF i >= 0 /\ i < Len(s) THEN s[i + 1] ELSE "undefined"

(***************************************************************************)
(* JavaScript numbers: Number(token) (for isNaN), parseInt(token) and      *)
(* Number.prototype.toString.                                              *)
(***************************************************************************)
NumInt(m, e) == [k |-> "int", mant |-> m, exp10 |-> e]
NumNaN == [k |-> "NaN", mant |-> 0, exp10 |-> 0]
NumE == [k |-> "E", mant |-> 0, exp10 |-> 0]

RECURSIVE SpanDec(_, _)
\* the 0-based index after the longest run of decimal digits of s from i
SpanDec(s, i) == IF IsDecDigit(CharAt(s, i)) THEN SpanDec(s, i + 1) ELSE i

RECURSIVE SpanHex(_, _)
SpanHex(s, i) == IF IsHexDigit(CharAt(s, i)) THEN SpanHex(s, i + 1) ELSE i

RECURSIVE SpanSet(_, _, _)
SpanSet(s, i, set) == IF CharAt(s, i) \in set THEN SpanSet(s, i + 1, set) ELSE i

IsSign(c) == c \in {"+", "-"}

\* StrDecimalLiteral of the StringToNumber grammar, from 0-based i to the end
IsStrDecimalLiteral(s) ==
    LET i0 == IF IsSign(CharAt(s, 0)) THEN 1 ELSE 0
        i1 == SpanDec(s, i0)
        dot == CharAt(s, i1) = "."
        i2 == IF dot THEN SpanDec(s, i1 + 1) ELSE i1
        hasInt == i1 > i0
        hasFrac == dot /\ i2 > i1 + 1
        hasExp == CharAt(s, i2) \in {"e", "E"}
        i3 == IF IsSign(CharAt(s, i2 + 1)) THEN i2 + 2 ELSE i2 + 1
        i4 == SpanDec(s, i3)
        last == IF hasExp THEN i4 ELSE i2
    IN  \/ SubSeq(s, i0 + 1, Len(s)) = S_Infinity
        \/ /\ hasInt \/ hasFrac
           /\ hasExp => i4 > i3
           /\ last = Len(s)

\* 0x / 0o / 0b literals take no sign
IsNonDecimalLiteral(s) ==
    /\ Len(s) >= 3
    /\ s[1] = "0"
    /\ \/ s[2] \in {"x", "X"} /\ SpanHex(s, 2) = Len(s)
       \/ s[2] \in {"o", "O"} /\ SpanSet(s, 2, {"0", "1", "2", "3", "4", "5", "6", "7"}) = Len(s)
       \/ s[2] \in {"b", "B"} /\ SpanSet(s, 2, {"0", "1"}) = Len(s)

\* isNaN(token): Number(token) is NaN.  Number("") is 0.
IsNaNString(token) ==
    ~ (Len(token) = 0 \/ IsStrDecimalLiteral(token) \/ IsNonDecimalLiteral(token))

RECURSIVE Normalize(_, _)
\* the value m * 10^e with the trailing zeros of m moved to the exponent
Normalize(m, e) ==
    IF m = 0 THEN NumInt(0, 0)
    ELSE IF m % 10 = 0 THEN Normalize(m \div 10, e + 1)
    ELSE NumInt(m, e)

RECURSIVE DigitsValue(_, _, _, _)
\* the value of the digits s[from+1 .. to] in the radix, most significant first
DigitsValue(s, from, to, radix) ==
    IF to <= from THEN 0
    ELSE DigitsValue(s, from, to - 1, radix) * radix + HexVal(s[to])

RECURSIVE TrailingZeros(_, _, _)
\* how many of the digits s[from+1 .. to] are trailing "0"
TrailingZeros(s, from, to) ==
    IF to > from /\ s[to] = "0" THEN 1 + TrailingZeros(s, from, to - 1) ELSE 0

\* parseInt(token), radix undefined
parseInt(token) ==
    LET neg == CharAt(token, 0) = "-"
        i0 == IF IsSign(CharAt(token, 0)) THEN 1 ELSE 0
        hex == CharAt(token, i0) = "0" /\ CharAt(token, i0 + 1) \in {"x", "X"}
        i1 == IF hex THEN i0 + 2 ELSE i0
        i2 == IF hex THEN SpanHex(token, i1) ELSE SpanDec(token, i1)
        tz == IF hex THEN 0 ELSE TrailingZeros(token, i1, i2)
        mag == DigitsValue(token, i1, i2 - tz, IF hex THEN 16 ELSE 10)
        val == IF mag = 0 THEN NumInt(0, 0) ELSE Normalize(mag, tz)
    IN  IF i2 = i1 THEN NumNaN
        ELSE IF neg THEN NumInt(0 - val.mant, val.exp10) ELSE val

RECURSIVE NatToString(_)
NatToString(n) ==
    IF n < 10 THEN <<DecDigits[n + 1]>>
    ELSE Append(NatToString(n \div 10), DecDigits[(n % 10) + 1])

RECURSIVE Zeros(_)
Zeros(n) == IF n <= 0 THEN <<>> ELSE <<"0">> \o Zeros(n - 1)

\* Number.prototype.toString(): decimal below 10^21, exponential from there on
NumberToString(v) ==
    IF v.k = "NaN" THEN S_NaN
    ELSE IF v.k = "E" THEN S_E
    ELSE IF v.mant = 0 THEN <<"0">>
    ELSE LET sign == IF v.mant < 0 THEN <<"-">> ELSE <<>>
             ds == NatToString(IF v.mant < 0 THEN 0 - v.mant ELSE v.mant)
             n == Len(ds) + v.exp10
         IN  IF n <= 21 THEN sign \o ds \o Zeros(v.exp10)
             ELSE sign \o <<ds[1]>>
                  \o (IF Len(ds) > 1 THEN <<".">> \o Tail(ds) ELSE <<>>)
                  \o <<"e", "+">> \o NatToString(n - 1)

(***************************************************************************)
(* Nodes.                                                                  *)
(***************************************************************************)
Const(value) ==
    [kind |-> "Const", value |-> value, varName |-> <<>>,
     operationString |-> <<>>, operands |-> <<>>]

Variable(varName) ==
    [kind |-> "Variable", value |-> NumNaN, varName |-> varName,
     operationString |-> <<>>, operands |-> <<>>]

Operation(operationString, operands) ==
    [kind |-> "Operation", value |-> NumNaN, varName |-> <<>>,
     operationString |-> operationString, operands |-> operands]

\* what `new Object()` gives: an object that is no node
PlainObject ==
    [kind |-> "Object", value |-> NumNaN, varName |-> <<>>,
     operationString |-> <<>>, operands |-> <<>>]

\* the value `undefined`
UndefinedValue ==
    [kind |-> "undefined", value |-> NumNaN, varName |-> <<>>,
     operationString |-> <<>>, operands |-> <<>>]

ConstZERO == Const(NumInt(0, 0))
ConstONE == Const(NumInt(1, 0))
ConstTWO == Const(NumInt(2, 0))
ConstE == Const(NumE)

RECURSIVE JoinSpace(_)
\* Array.prototype.join(" ") of a sequence of strings
JoinSpace(ss) ==
    IF Len(ss) = 0 THEN <<>>
    ELSE IF Len(ss) = 1 THEN ss[1]
    ELSE ss[1] \o <<" ">> \o JoinSpace(Tail(ss))

RECURSIVE toString(_)
toString(n) ==
    IF n.kind = "Const" THEN NumberToString(n.value)
    ELSE IF n.kind = "Variable" THEN n.varName
    ELSE JoinSpace([i \in 1..Len(n.operands) |-> toString(n.operands[i])])
         \o <<" ">> \o n.operationString

RECURSIVE prefix(_)
prefix(n) ==
    IF n.kind = "Const" THEN NumberToString(n.value)
    ELSE IF n.kind = "Variable" THEN n.varName
    ELSE <<"(">> \o n.operationString \o <<" ">>
         \o JoinSpace([i \in 1..Len(n.operands) |-> prefix(n.operands[i])]) \o <<")">>

RECURSIVE postfix(_)
postfix(n) ==
    IF n.kind = "Const" THEN NumberToString(n.value)
    ELSE IF n.kind = "Variable" THEN n.varName
    ELSE <<"(">> \o JoinSpace([i \in 1..Len(n.operands) |-> postfix(n.operands[i])])
         \o <<" ">> \o n.operationString \o <<")">>

(***************************************************************************)
(* Arithmetic of evaluation results.  <<n, d>> with d > 0 is the rational  *)
(* n/d in lowest terms; <<1, 0>> and <<-1, 0>> are +-Infinity, <<0, 0>> is *)
(* NaN.  (A negative zero is not told from zero.)                          *)
(***************************************************************************)
Abs(n) == IF n < 0 THEN 0 - n ELSE n
Sgn(n) == IF n < 0 THEN 0 - 1 ELSE IF n > 0 THEN 1 ELSE 0

RECURSIVE Gcd(_, _)
Gcd(a, b) == IF b = 0 THEN a ELSE Gcd(b, a % b)

Rat(n, d) ==
    IF d = 0 THEN <<Sgn(n), 0>>
    ELSE LET g == Gcd(Abs(n), Abs(d))
         IN  <<(Sgn(d) * n) \div g, Abs(d) \div g>>

RatNaN == <<0, 0>>
RatInt(n) == <<n, 1>>

RatAdd(a, b) ==
    IF a[2] = 0 /\ b[2] = 0
    THEN (IF a[1] = b[1] THEN a ELSE RatNaN)
    ELSE Rat(a[1] * b[2] + b[1] * a[2], a[2] * b[2])

RatNeg(a) == <<0 - a[1], a[2]>>
RatSub(a, b) == RatAdd(a, RatNeg(b))
RatMul(a, b) == Rat(a[1] * b[1], a[2] * b[2])
RatDiv(a, b) == Rat(a[1] * b[2], a[2] * b[1])

RECURSIVE Pow10(_)
Pow10(e) == IF e = 0 THEN 1 ELSE 10 * Pow10(e - 1)

\* the number a Const holds, as an evaluation result (Math.E has none here)
NumValue(v) ==
    CASE v.k = "int" -> RatInt(v.mant * Pow10(v.exp10))
      [] v.k = "NaN" -> RatNaN

\* an argument the call did not pass is undefined, which arithmetic turns into NaN
Arg(args, i) == IF i <= Len(args) THEN args[i] ELSE RatNaN

RECURSIVE SumFrom(_, _)
\* arr.reduce((x, y) => x + y, 0), over arr[i..]
SumFrom(arr, i) == IF i > Len(arr) THEN RatInt(0) ELSE RatAdd(arr[i], SumFrom(arr, i + 1))

avg_wrong(arr) == RatDiv(SumFrom(arr, 1), RatInt(Len(arr) + 1))

avg(arr) == RatDiv(SumFrom(arr, 1), RatInt(Len(arr)))

square(x) == RatMul(x, x)

(***************************************************************************)
(* The registry `operations` and the operations' functions.  Math.pow and  *)
(* Math.log have no rational value: evaluation is defined here for the     *)
(* other seven operations only.                                            *)
(***************************************************************************)
RegisteredStrings ==
    {S_plus, S_minus, S_negate, S_times, S_divide, S_pow, S_log, S_mean, S_var}

\* what a plain object inherits from Object.prototype
ObjectPrototypeKeys ==
    {S_constructor, S_toString, S_valueOf, S_hasOwnProperty, S_proto}

\* `token in operations`: own and inherited properties
InOperations(token) == token \in RegisteredStrings \cup ObjectPrototypeKeys

\* res.arity = operation.length: the declared parameters, rest parameters not
\* counted; -1 stands for the undefined .arity of an inherited property
arity(operationString) ==
    CASE operationString \in {S_plus, S_minus, S_times, S_divide, S_pow, S_log} -> 2
      [] operationString = S_negate -> 1
      [] operationString \in {S_mean, S_var} -> 0
      [] OTHER -> 0 - 1

operation(operationString, args) ==
    CASE operationString = S_plus -> RatAdd(Arg(args, 1), Arg(args, 2))
      [] operationString = S_minus -> RatSub(Arg(args, 1), Arg(args, 2))
      [] operationString = S_negate -> RatNeg(Arg(args, 1))
      [] operationString = S_times -> RatMul(Arg(args, 1), Arg(args, 2))
      [] operationString = S_divide -> RatDiv(Arg(args, 1), Arg(args, 2))
      [] operationString = S_mean -> avg(args)
      [] operationString = S_var ->
            RatSub(avg([i \in 1..Len(args) |-> square(args[i])]), square(avg(args)))

RECURSIVE evaluate(_, _)
evaluate(n, varValues) ==
    IF n.kind = "Const" THEN NumValue(n.value)
    ELSE IF n.kind = "Variable" THEN varValues[VarsIndexOf(n.varName)]
    ELSE operation(n.operationString,
                   [i \in 1..Len(n.operands) |-> evaluate(n.operands[i], varValues)])

RECURSIVE Evaluable(_)
\* no Math.pow, Math.log or Math.E in the tree
Evaluable(n) ==
    IF n.kind = "Const" THEN n.value.k # "E"
    ELSE IF n.kind = "Variable" THEN TRUE
    ELSE /\ n.kind = "Operation"
         /\ n.operationString \in RegisteredStrings \ {S_pow, S_log}
         /\ \A i \in 1..Len(n.operands) : Evaluable(n.operands[i])

Add(x, y) == Operation(S_plus, <<x, y>>)
Subtract(x, y) == Operation(S_minus, <<x, y>>)
Negate(x) == Operation(S_negate, <<x>>)
Multiply(x, y) == Operation(S_times, <<x, y>>)
Divide(x, y) == Operation(S_divide, <<x, y>>)
Pow(x, y) == Operation(S_pow, <<x, y>>)
Log(x, y) == Operation(S_log, <<x, y>>)
Mean(args) == Operation(S_mean, args)
Var(args) == Operation(S_var, args)
Square(x) == Multiply(x, x)

RECURSIVE FoldAdd(_, _)
\* args.reduce((x, y) => new Add(x, y), Const.ZERO), over the first k of args
FoldAdd(args, k) == IF k = 0 THEN ConstZERO ELSE Add(FoldAdd(args, k - 1), args[k])

MultiplyDerivative_wrong(dx, x, dy, y) == Add(Multiply(dx, dy), Multiply(x, y))

\* the derivative rule of Multiply, given the operands and their derivatives
MultiplyDerivative(dx, x, dy, y) == Add(Multiply(dx, y), Multiply(x, dy))

RECURSIVE diff(_, _)
diff(n, varName) ==
    IF n.kind = "Const" THEN ConstZERO
    ELSE IF n.kind = "Variable"
    THEN (IF varName = n.varName THEN ConstONE ELSE ConstZERO)
    ELSE LET args == n.operands
             x == args[1]
             y == args[2]
             op == n.operationString
         IN  CASE op = S_plus -> Add(diff(x, varName), diff(y, varName))
               [] op = S_minus -> Subtract(diff(x, varName), diff(y, varName))
               [] op = S_negate -> Negate(diff(x, varName))
               [] op = S_times ->
                    MultiplyDerivative(diff(x, varName), x, diff(y, varName), y)
               [] op = S_divide ->
                    Divide(Subtract(Multiply(diff(x, varName), y),
                                    Multiply(x, diff(y, varName))),
                           Multiply(y, y))
               [] op = S_pow ->
                    Multiply(Pow(x, Subtract(y, ConstONE)),
                             Add(Multiply(y, diff(x, varName)),
                                 Multiply(Multiply(x, diff(y, varName)), Log(ConstE, x))))
               [] op = S_log ->
                    Divide(Subtract(Multiply(Multiply(Log(ConstE, x), diff(y, varName)),
                                             Divide(ConstONE, y)),
                                    Multiply(Multiply(Log(ConstE, y), diff(x, varName)),
                                             Divide(ConstONE, x))),
                           Multiply(Log(ConstE, x), Log(ConstE, x)))
               [] op = S_mean ->
                    Divide(diff(FoldAdd(args, Len(args)), varName),
                           Const(Normalize(Len(args), 0)))
               [] op = S_var ->
                    diff(Subtract(Mean([i \in 1..Len(args) |-> Square(args[i])]),
                                  Square(Mean(args))),
                         varName)

(***************************************************************************)
(* parseWithBrackets.  A token result is [status, node, token, start, err] *)
(* with status "node" (an operand), "op" (the raw operator string) or      *)
(* "error" (the exception thrown); start is the cursor afterwards.         *)
(***************************************************************************)
NoErr == [name |-> "none", message |-> "none", hasPos |-> FALSE, pos |-> 0]

\* new ParseError-family error; pos === undefined is hasPos = FALSE
Error(name, message, hasPos, pos) ==
    [name |-> name, message |-> message, hasPos |-> hasPos, pos |-> pos]

TokNode(node, start) ==
    [status |-> "node", node |-> node, token |-> <<>>, start |-> start, err |-> NoErr]

TokOp(token, start) ==
    [status |-> "op", node |-> UndefinedValue, token |-> token, start |-> start, err |-> NoErr]

TokError(err, start) ==
    [status |-> "error", node |-> UndefinedValue, token |-> <<>>, start |-> start, err |-> err]

RECURSIVE skipWhitespaces(_, _)
skipWhitespaces(expr, start) ==
    IF start <= Len(expr) - 1 /\ IsWhitespaceChar(CharAt(expr, start))
    THEN skipWhitespaces(expr, start + 1)
    ELSE start

RECURSIVE TokenEnd(_, _)
\* the cursor after the while loop that collects a token's characters
TokenEnd(expr, start) ==
    IF /\ start <= Len(expr) - 1
       /\ ~ IsWhitespaceChar(CharAt(expr, start))
       /\ CharAt(expr, start) # "("
       /\ CharAt(expr, start) # ")"
    THEN TokenEnd(expr, start + 1)
    ELSE start

\* the if-chain of parseToken on the collected token
ClassifyToken(token, startPos, after) ==
    IF Len(token) = 0
    THEN TokError(Error("InvalidFormatError", "Empty token", TRUE, startPos), after)
    ELSE IF VarsIncludes(token) THEN TokNode(Variable(token), after)
    ELSE IF ~ IsNaNString(token) THEN TokNode(Const(parseInt(token)), after)
    ELSE IF InOperations(token) THEN TokOp(token, after)
    ELSE TokError(Error("InvalidFormatError", "Unknown token", TRUE, startPos), after)

ValidateOperation_noPositionCheck(operationAtStart, startPos, after, tokens, operationStrings) ==
    IF Len(operationStrings) # 1
    THEN TokError(Error("InvalidOperationError", "Invalid expression", TRUE, startPos), after)
    ELSE LET operationString == operationStrings[1][1]
         IN  IF \/ Len(tokens) = 0
                \/ (arity(operationString) # 0 /\ arity(operationString) # Len(tokens))
             THEN TokError(Error("InvalidOperationError", "Invalid amount of arguments",
                                 TRUE, startPos), after)
             ELSE TokNode(Operation(operationString, tokens), after)

\* parseOperation after the closing parenthesis: the three checks and the construction
ValidateOperation(operationAtStart, startPos, after, tokens, operationStrings) ==
    IF Len(operationStrings) # 1
    THEN TokError(Error("InvalidOperationError", "Invalid expression", TRUE, startPos), after)
    ELSE LET operationString == operationStrings[1][1]
         IN  IF operationStrings[1][2] # (IF operationAtStart THEN 0 ELSE Len(tokens))
             THEN TokError(Error("InvalidOperationError", "Invalid operation position",
                                 TRUE, startPos), after)
             ELSE IF \/ Len(tokens) = 0
                     \/ (arity(operationString) # 0 /\ arity(operationString) # Len(tokens))
             THEN TokError(Error("InvalidOperationError", "Invalid amount of arguments",
                                 TRUE, startPos), after)
             ELSE TokNode(Operation(operationString, tokens), after)

RECURSIVE parseToken(_, _, _)
RECURSIVE OperationLoop(_, _, _, _, _)
RECURSIVE parseOperation(_, _, _)

parseToken(operationAtStart, expr, start) ==
    IF CharAt(expr, start) = "("
    THEN parseOperation(operationAtStart, expr, start)
    ELSE LET after == TokenEnd(expr, start)
         IN  ClassifyToken(SubSeq(expr, start + 1, after), start, after)

\* the while loop of parseOperation: [status, tokens, operationStrings, start, err]
OperationLoop(operationAtStart, expr, start, tokens, operationStrings) ==
    IF start <= Len(expr) - 1 /\ CharAt(expr, start) # ")"
    THEN LET curToken == parseToken(operationAtStart, expr, start)
         IN  IF curToken.status = "error"
             THEN [status |-> "error", tokens |-> tokens,
                   operationStrings |-> operationStrings,
                   start |-> curToken.start, err |-> curToken.err]
             ELSE IF curToken.status = "op"
             THEN OperationLoop(operationAtStart, expr,
                                skipWhitespaces(expr, curToken.start), tokens,
                                Append(operationStrings, <<curToken.token, Len(tokens)>>))
             ELSE OperationLoop(operationAtStart, expr,
                                skipWhitespaces(expr, curToken.start),
                                Append(tokens, curToken.node), operationStrings)
    ELSE [status |-> "ok", tokens |-> tokens, operationStrings |-> operationStrings,
          start |-> start, err |-> NoErr]

parseOperation(operationAtStart, expr, start) ==
    LET loop == OperationLoop(operationAtStart, expr, skipWhitespaces(expr, start + 1),
                              <<>>, <<>>)
    IN  IF loop.status = "error" THEN TokError(loop.err, loop.start)
        ELSE IF loop.start > Len(expr) - 1 \/ CharAt(expr, loop.start) # ")"
        THEN TokError(Error("InvalidFormatError", ") expected", TRUE, loop.start), loop.start)
        ELSE ValidateOperation(operationAtStart, start, loop.start + 1,
                               loop.tokens, loop.operationStrings)

(***************************************************************************)
(* What a call gives: [status, value, err, start, stack]: status           *)
(* "returned" with the value, or "threw" with the error; start is the      *)
(* cursor of a bracketed parser at its end, stack the stack of parse at    *)
(* its end.                                                                *)
(***************************************************************************)
Returned(value, start, stack) ==
    [status |-> "returned", value |-> value, err |-> NoErr, start |-> start, stack |-> stack]

Threw(err, start) ==
    [status |-> "threw", value |-> UndefinedValue, err |-> err, start |-> start, stack |-> <<>>]

NoResult ==
    [status |-> "none", value |-> UndefinedValue, err |-> NoErr, start |-> 0, stack |-> <<>>]

\* a raw operator string in the place of a node
RawString(token) ==
    [kind |-> "string", value |-> NumNaN, varName |-> <<>>,
     operationString |-> token, operands |-> <<>>]

TopLevel_noStringCheck(expr, first, after) ==
    IF first.status = "error" THEN Threw(first.err, first.start)
    ELSE IF after <= Len(expr) - 1
    THEN Threw(Error("InvalidFormatError", "Expected end of expression", TRUE, after), after)
    ELSE IF first.status = "op" THEN Returned(RawString(first.token), after, <<>>)
    ELSE Returned(first.node, after, <<>>)

\* the end of the parser: the two checks after the first token
TopLevel(expr, first, after) ==
    IF first.status = "error" THEN Threw(first.err, first.start)
    ELSE IF after <= Len(expr) - 1
    THEN Threw(Error("InvalidFormatError", "Expected end of expression", TRUE, after), after)
    ELSE IF first.status = "op"
    THEN Threw(Error("InvalidFormatError", "Invalid expression which contains only operation",
                     FALSE, 0), after)
    ELSE Returned(first.node, after, <<>>)

parseWithBrackets(operationAtStart, expr) ==
    LET first == parseToken(operationAtStart, expr, skipWhitespaces(expr, 0))
    IN  TopLevel(expr, first,
                 IF first.status = "error" THEN first.start
                 ELSE skipWhitespaces(expr, first.start))

parsePrefix(expr) == parseWithBrackets(TRUE, expr)
parsePostfix(expr) == parseWithBrackets(FALSE, expr)

(***************************************************************************)
(* parse, the flat stack parser.                                           *)
(***************************************************************************)
RECURSIVE TrimEnd(_)
TrimEnd(s) ==
    IF Len(s) > 0 /\ IsWhitespaceChar(s[Len(s)]) THEN TrimEnd(SubSeq(s, 1, Len(s) - 1)) ELSE s

\* String.prototype.trim
Trim(s) == LET t == TrimEnd(s) IN SubSeq(t, skipWhitespaces(t, 0) + 1, Len(t))

RECURSIVE NonWsEnd(_, _)
NonWsEnd(s, i) ==
    IF i <= Len(s) - 1 /\ ~ IsWhitespaceChar(CharAt(s, i)) THEN NonWsEnd(s, i + 1) ELSE i

RECURSIVE SplitFrom(_, _)
SplitFrom(s, i) ==
    LET j == NonWsEnd(s, i)
    IN  IF j > Len(s) - 1 THEN <<SubSeq(s, i + 1, j)>>
        ELSE <<SubSeq(s, i + 1, j)>> \o SplitFrom(s, skipWhitespaces(s, j))

\* s.split(/\s+/) of a trimmed s: one empty token for the empty string
Split(s) == SplitFrom(s, 0)

\* the index at which stack.splice(stack.length - arity) starts removing
\* (arity -1 is undefined: the argument is NaN, taken as 0)
SpliceStart(len, a) ==
    LET arg == len - a
    IN  IF a < 0 THEN 0
        ELSE IF arg < 0 THEN (IF len + arg > 0 THEN len + arg ELSE 0)
        ELSE IF arg > len THEN len ELSE arg

\* one token of the for loop: [threw, stack]
ParseStep(stack, token) ==
    IF InOperations(token)
    THEN LET from == SpliceStart(Len(stack), arity(token))
             kept == SubSeq(stack, 1, from)
             removed == SubSeq(stack, from + 1, Len(stack))
         IN  IF token \in RegisteredStrings
             THEN [threw |-> FALSE, stack |-> Append(kept, Operation(token, removed))]
             ELSE IF token = S_constructor
             THEN [threw |-> FALSE,
                   stack |-> Append(kept, IF Len(removed) > 0 THEN removed[1] ELSE PlainObject)]
             ELSE [threw |-> TRUE, stack |-> kept]
    ELSE IF VarsIncludes(token) THEN [threw |-> FALSE, stack |-> Append(stack, Variable(token))]
    ELSE IF ~ IsNaNString(token)
    THEN [threw |-> FALSE, stack |-> Append(stack, Const(parseInt(token)))]
    ELSE [threw |-> FALSE, stack |-> stack]

RECURSIVE ParseLoop(_, _, _)
ParseLoop(tokens, i, stack) ==
    IF i > Len(tokens)
    THEN Returned(IF Len(stack) > 0 THEN stack[1] ELSE UndefinedValue, 0, stack)
    ELSE LET step == ParseStep(stack, tokens[i])
         IN  IF step.threw
             THEN Threw(Error("TypeError", "not a constructor", FALSE, 0), 0)
             ELSE ParseLoop(tokens, i + 1, step.stack)

parse(expr) == ParseLoop(Split(Trim(expr)), 1, <<>>)

(***************************************************************************)
(* The inputs of the checked instances.                                    *)
(***************************************************************************)
RECURSIVE Flatten(_)
Flatten(ps) == IF Len(ps) = 0 THEN <<>> ELSE ps[1] \o Flatten(Tail(ps))

SeqsUpTo(S, n) == UNION {[1..k -> S] : k \in 0..n}

\* the pieces an input of the bracketed parsers is made of
StructPieces ==
    {<<"(">>, <<")">>, <<" ">>, <<"x", " ">>, <<"2">>, <<"+", " ">>,
     S_negate \o <<" ">>, S_mean \o <<" ">>}

ExampleInputs ==
    {<<"(", "+", " ", "x", ")">>,
     <<"(", "x", " ", "+", " ", "y", ")">>,
     <<"(", "+", " ", "x", " ", "y">>,
     <<"(", "+", " ", "x", " ", "1", ")">>,
     <<"(", "*", " ", "x", " ", "y", ")">>}


\* the pieces of the inputs that exercise the classification of tokens
LexPieces ==
    {<<"(">>, <<")">>, <<" ">>, <<"x">>, <<"1">>, <<"0">>, <<".">>, <<"e">>, <<"-">>,
     S_Infinity, S_negate \o <<" ">>, S_toString \o <<" ">>, S_constructor \o <<" ">>,
     <<"f", "o", "o">>}


\* the tokens of the inputs of the flat parser, and of variadic groups
FlatTokens ==
    {<<"1">>, <<"2">>, <<"5">>, <<"6">>, <<"1", "1">>, S_x, S_plus, S_mean, S_var}


\* the leaves of the trees built through the constructors
Leaves == {Variable(S_x), Variable(S_y), Const(NumInt(2, 0)), Const(NumInt(1, 21))}

UnaryStrings == {S_negate, S_mean, S_var}
BinaryStrings == RegisteredStrings \ {S_negate}

RECURSIVE TreesOfSize(_)
\* the trees of exactly n nodes: operations of one, two or (mean, var) three operands
TreesOfSize(n) ==
    IF n = 1 THEN Leaves
    ELSE LET T == [k \in 1..(n - 1) |-> TreesOfSize(k)]
         IN  {Operation(op, <<a>>) : op \in UnaryStrings, a \in T[n - 1]}
             \cup UNION {{Operation(op, <<a, b>>) :
                             op \in BinaryStrings, a \in T[i], b \in T[n - 1 - i]}
                         : i \in 1..(n - 2)}
             \cup UNION {UNION {{Operation(op, <<a, b, c>>) :
                                    op \in {S_mean, S_var}, a \in T[i],
                                    b \in T[j], c \in T[n - 1 - i - j]}
                                : j \in 1..(n - 2 - i)}
                         : i \in 1..(n - 3)}

Trees == UNION {TreesOfSize(n) : n \in 1..MaxNodes}

VarNames == {S_x, S_y, S_z}

(***************************************************************************)
(* The calls.                                                              *)
(***************************************************************************)
Idle ==
    /\ called = "none"
    /\ res = NoResult
    /\ tree = UndefinedValue
    /\ diffVar = <<>>
    /\ deriv = UndefinedValue

ParsePrefixCall ==
    /\ called = "none"
    /\ called' = "parsePrefix"
    /\ res' = parsePrefix(expression)
    /\ UNCHANGED <<expression, tree, diffVar, deriv>>

ParsePostfixCall ==
    /\ called = "none"
    /\ called' = "parsePostfix"
    /\ res' = parsePostfix(expression)
    /\ UNCHANGED <<expression, tree, diffVar, deriv>>

ParseCall ==
    /\ called = "none"
    /\ called' = "parse"
    /\ res' = parse(expression)
    /\ UNCHANGED <<expression, tree, diffVar, deriv>>

\* parsePrefix(t.prefix()) of the tree t that parsePrefix returned
ReparsePrefixCall ==
    /\ called = "parsePrefix"
    /\ res.status = "returned"
    /\ called' = "reparsePrefix"
    /\ tree' = res.value
    /\ expression' = prefix(res.value)
    /\ res' = parsePrefix(prefix(res.value))
    /\ UNCHANGED <<diffVar, deriv>>

\* parsePostfix(t.postfix()) of the tree t that parsePostfix returned
ReparsePostfixCall ==
    /\ called = "parsePostfix"
    /\ res.status = "returned"
    /\ called' = "reparsePostfix"
    /\ tree' = res.value
    /\ expression' = postfix(res.value)
    /\ res' = parsePostfix(postfix(res.value))
    /\ UNCHANGED <<diffVar, deriv>>

InitTree ==
    /\ tree \in Trees
    /\ expression = prefix(tree)
    /\ called = "none"
    /\ res = NoResult
    /\ diffVar = <<>>
    /\ deriv = UndefinedValue

\* tree.diff(v)
DiffCall ==
    /\ called = "none"
    /\ \E v \in VarNames :
          /\ diffVar' = v
          /\ deriv' = diff(tree, v)
    /\ called' = "diff"
    /\ UNCHANGED <<expression, res, tree>>

\* parse(tree.toString())
ToStringParseCall ==
    /\ called = "none"
    /\ called' = "parse"
    /\ expression' = toString(tree)
    /\ res' = parse(toString(tree))
    /\ UNCHANGED <<tree, diffVar, deriv>>

\* an input of a bracketed parser: up to MaxPieces pieces, or one of the examples
InitBr ==
    /\ \/ \E ps \in SeqsUpTo(StructPieces, MaxPieces) : expression = Flatten(ps)
       \/ expression \in ExampleInputs
    /\ Idle
NextBr == ParsePrefixCall \/ ParsePostfixCall
SpecBr == InitBr /\ [][NextBr]_vars_

InitLex ==
    /\ \E ps \in SeqsUpTo(LexPieces, MaxLexPieces) : expression = Flatten(ps)
    /\ Idle
NextLex ==
    \/ ParsePrefixCall
    \/ ParsePostfixCall
    \/ ParseCall
    \/ ReparsePrefixCall
    \/ ReparsePostfixCall
SpecLex == InitLex /\ [][NextLex]_vars_

\* up to MaxFlatTokens tokens joined by spaces, bare or in one pair of parentheses
InitFlat ==
    /\ \E ts \in SeqsUpTo(FlatTokens, MaxFlatTokens) :
          \/ expression = JoinSpace(ts)
          \/ expression = <<"(">> \o JoinSpace(ts) \o <<")">>
    /\ Idle
NextFlat == ParseCall \/ ParsePostfixCall
SpecFlat == InitFlat /\ [][NextFlat]_vars_

NextTree == DiffCall \/ ToStringParseCall
SpecTree == InitTree /\ [][NextTree]_vars_

Init == InitBr
Next == NextBr
Spec == SpecBr

(***************************************************************************)
(* What the properties below are stated with: the registry as documented   *)
(* (nine symbols and their arities), the shapes of literals, and           *)
(* arithmetic done directly on integers.                                   *)
(***************************************************************************)
NineOperators ==
    {S_plus, S_minus, S_negate, S_times, S_divide, S_pow, S_log, S_mean, S_var}

\* the documented arity, with 0 for the variadic mean and var
DocumentedArity(op) ==
    IF op \in {S_mean, S_var} THEN 0 ELSE IF op = S_negate THEN 1 ELSE 2

Bracketed == {"parsePrefix", "parsePostfix"}

\* an optionally signed sequence of decimal digits
IsSignedDigits(s) ==
    LET i0 == IF IsSign(CharAt(s, 0)) THEN 1 ELSE 0
    IN  Len(s) > i0 /\ \A i \in (i0 + 1)..Len(s) : IsDecDigit(s[i])

\* the integer such a literal writes
LiteralInt(s) ==
    LET i0 == IF IsSign(CharAt(s, 0)) THEN 1 ELSE 0
        mag == DigitsValue(s, i0, Len(s), 10)
    IN  IF CharAt(s, 0) = "-" THEN 0 - mag ELSE mag

IsNodeKind(k) == k \in {"Const", "Variable", "Operation"}

RECURSIVE IsNode(_)
\* a Constant, a Variable or an Operation over such nodes
IsNode(n) ==
    /\ IsNodeKind(n.kind)
    /\ n.kind = "Operation" =>
          /\ Len(n.operands) >= 1
          /\ \A i \in 1..Len(n.operands) : IsNode(n.operands[i])

Zero3 == <<RatInt(0), RatInt(0), RatInt(0)>>

(***************************************************************************)
(* C1  Round trip of the bracketed renderings.                             *)
(***************************************************************************)
\* C1: whenever parsePrefix(s) returned a tree t, parsePrefix(t.prefix()) returns a
\* tree too and its prefix() is t.prefix(); likewise for parsePostfix and postfix().
\* (expression holds the rendering handed to the second call.)
RoundTrip_C1 ==
    /\ called = "reparsePrefix" => (res.status = "returned" /\ prefix(res.value) = expression)
    /\ called = "reparsePostfix" => (res.status = "returned" /\ postfix(res.value) = expression)

(***************************************************************************)
(* C2  Variadic operations and the two postfix parsers.                    *)
(***************************************************************************)
\* tokens a1 ... an op with n >= 1 integer literals and op mean or var
VariadicShape(toks) ==
    /\ Len(toks) >= 2
    /\ toks[Len(toks)] \in {S_mean, S_var}
    /\ \A i \in 1..(Len(toks) - 1) : IsSignedDigits(toks[i])

IsFlatVariadic(e) == Len(e) > 0 /\ e[1] # "(" /\ VariadicShape(Split(e))

Inner(e) == SubSeq(e, 2, Len(e) - 1)

IsBracketedVariadic(e) ==
    /\ Len(e) >= 2
    /\ e[1] = "("
    /\ e[Len(e)] = ")"
    /\ VariadicShape(Split(Inner(e)))

RECURSIVE IntSum(_, _)
\* f[1] + ... + f[k]
IntSum(f, k) == IF k = 0 THEN 0 ELSE f[k] + IntSum(f, k - 1)

\* the arithmetic mean or the population variance (1/n) * sum (a_i - mean)^2 of the
\* literals of a1 ... an op, as a rational
ExpectedVariadic(toks) ==
    LET n == Len(toks) - 1
        a == [i \in 1..n |-> LiteralInt(toks[i])]
        s == IntSum(a, n)
        dev2 == [i \in 1..n |-> (n * a[i] - s) * (n * a[i] - s)]
    IN  IF toks[Len(toks)] = S_mean THEN Rat(s, n) ELSE Rat(IntSum(dev2, n), n * n * n)

BracketGroupOK(operationAtStart, i) ==
    LET loop == OperationLoop(operationAtStart, expression,
                              skipWhitespaces(expression, i + 1), <<>>, <<>>)
        r == parseOperation(operationAtStart, expression, i)
        ops == loop.operationStrings
        n == Len(loop.tokens)
        accepted ==
            /\ Len(ops) = 1
            /\ ops[1][1] \in NineOperators
            /\ ops[1][2] = (IF operationAtStart THEN 0 ELSE n)
            /\ n >= 1
            /\ DocumentedArity(ops[1][1]) = 0 \/ DocumentedArity(ops[1][1]) = n
    IN  (loop.status = "ok" /\ CharAt(expression, loop.start) = ")") =>
            IF accepted
            THEN /\ r.status = "node"
                 /\ r.node = Operation(ops[1][1], loop.tokens)
            ELSE /\ r.status = "error"
                 /\ r.err.name = "InvalidOperationError"
                 /\ r.err.hasPos
                 /\ r.err.pos = i

\* C3: every bracket group of the input is validated as above, in the mode of the
\* parser called; "(+ x)" and "(x + y)" in prefix mode raise InvalidOperationError
\* at position 0.
BracketValidation_C3 ==
    called \in Bracketed =>
        /\ \A i \in 0..(Len(expression) - 1) :
              CharAt(expression, i) = "(" => BracketGroupOK(called = "parsePrefix", i)
        /\ (called = "parsePrefix"
            /\ expression \in {<<"(", "+", " ", "x", ")">>,
                               <<"(", "x", " ", "+", " ", "y", ")">>}) =>
              /\ res.status = "threw"
              /\ res.err.name = "InvalidOperationError"
              /\ res.err.hasPos
              /\ res.err.pos = 0

\* parsePrefix("(x + y)") has raised InvalidOperationError at position 0
Witness_C3 ==
    /\ called = "parsePrefix"
    /\ expression = <<"(", "x", " ", "+", " ", "y", ")">>
    /\ res.status = "threw"
    /\ res.err.name = "InvalidOperationError"
    /\ res.err.pos = 0

(***************************************************************************)
(* C4  A bracketed parser returns a whole tree or raises a ParseError.     *)
(***************************************************************************)
\* C4: a call of parsePrefix or parsePostfix either returns a node (Constant,
\* Variable or Operation over nodes) with the cursor past the end of the input, or
\* raises InvalidFormatError or InvalidOperationError and returns nothing.
AllOrNothing_C4 ==
    called \in Bracketed =>
        \/ /\ res.status = "returned"
           /\ IsNode(res.value)
           /\ res.start >= Len(expression)
        \/ /\ res.status = "threw"
           /\ res.err.name \in {"InvalidFormatError", "InvalidOperationError"}
           /\ res.value = UndefinedValue

\* parsePostfix has returned an Operation for an input with trailing whitespace
Witness_C4 ==
    /\ called = "parsePostfix"
    /\ res.status = "returned"
    /\ res.value.kind = "Operation"
    /\ Len(expression) > 0
    /\ expression[Len(expression)] = " "

(***************************************************************************)
(* C5  Every error of a bracketed parser carries an offset.                *)
(***************************************************************************)
\* C5: every error raised by parsePrefix / parsePostfix has a defined position
\* within 0..length(input).
ErrorHasPosition_C5 ==
    (called \in Bracketed /\ res.status = "threw") =>
        /\ res.err.hasPos
        /\ res.err.pos \in 0..Len(expression)

(***************************************************************************)
(* C6  Which tokens become Constants.                                      *)
(***************************************************************************)
\* C6: a bracketed parser returns a Constant only for an input that is (up to
\* surrounding whitespace) an optionally signed sequence of decimal digits, and the
\* Constant holds that integer; any other token never becomes a Constant.
IntegerLiteralsOnly_C6 ==
    (called \in Bracketed /\ res.status = "returned" /\ res.value.kind = "Const") =>
        /\ IsSignedDigits(Trim(expression))
        /\ res.value.value = Normalize(LiteralInt(Trim(expression)), 0)

(***************************************************************************)
(* C7  Differentiation of polynomial trees.                                *)
(***************************************************************************)
RECURSIVE PolynomialTree(_)
\* integer Constants, Variables and +, -, negate, * with their operands
PolynomialTree(t) ==
    IF t.kind = "Const" THEN t.value.k = "int" /\ t.value.exp10 = 0
    ELSE IF t.kind = "Variable" THEN TRUE
    ELSE /\ t.operationString \in {S_plus, S_minus, S_negate, S_times}
         /\ Len(t.operands) = DocumentedArity(t.operationString)
         /\ \A i \in 1..Len(t.operands) : PolynomialTree(t.operands[i])

RECURSIVE PolyValue(_, _)
\* the integer a polynomial tree denotes at the valuation vals
PolyValue(t, vals) ==
    IF t.kind = "Const" THEN t.value.mant
    ELSE IF t.kind = "Variable" THEN vals[VarsIndexOf(t.varName)]
    ELSE LET a == PolyValue(t.operands[1], vals)
         IN  IF t.operationString = S_negate THEN 0 - a
             ELSE LET b == PolyValue(t.operands[2], vals)
                  IN  CASE t.operationString = S_plus -> a + b
                        [] t.operationString = S_minus -> a - b
                        [] t.operationString = S_times -> a * b

RECURSIVE PartialDerivative(_, _, _)
\* the partial derivative with respect to v at vals, by the rules of calculus
PartialDerivative(t, v, vals) ==
    IF t.kind = "Const" THEN 0
    ELSE IF t.kind = "Variable" THEN (IF t.varName = v THEN 1 ELSE 0)
    ELSE LET da == PartialDerivative(t.operands[1], v, vals)
         IN  IF t.operationString = S_negate THEN 0 - da
             ELSE LET db == PartialDerivative(t.operands[2], v, vals)
                  IN  CASE t.operationString = S_plus -> da + db
                        [] t.operationString = S_minus -> da - db
                        [] t.operationString = S_times ->
                             da * PolyValue(t.operands[2], vals)
                             + PolyValue(t.operands[1], vals) * db

Valuations == [1..3 -> {0 - 2, 0, 3}]

\* C7: for a polynomial tree t, t.diff(v) evaluates at every valuation to the partial
\* derivative of t with respect to v, and t renders as it did before the call.
DiffCorrect_C7 ==
    (called = "diff" /\ PolynomialTree(tree)) =>
        /\ \A vals \in Valuations :
              evaluate(deriv, [i \in 1..3 |-> RatInt(vals[i])])
                  = RatInt(PartialDerivative(tree, diffVar, vals))
        /\ prefix(tree) = expression

\* (x * x).diff("x") has been taken and evaluates to 6 at x = 3
Witness_C7 ==
    /\ called = "diff"
    /\ tree = Multiply(Variable(S_x), Variable(S_x))
    /\ diffVar = S_x
    /\ evaluate(deriv, <<RatInt(3), RatInt(0), RatInt(0)>>) = RatInt(6)

(***************************************************************************)
(* C8  Only the nine registered symbols are operators.                     *)
(***************************************************************************)
KnownToken(token) ==
    token \in NineOperators \/ VarsIncludes(token) \/ ~ IsNaNString(token)

RECURSIVE FirstTokenStart(_, _)
\* the offset of the first character that is neither whitespace nor "("
FirstTokenStart(e, i) ==
    IF i <= Len(e) - 1 /\ (IsWhitespaceChar(CharAt(e, i)) \/ CharAt(e, i) = "(")
    THEN FirstTokenStart(e, i + 1)
    ELSE i

\* C8: a token that is none of the nine symbols, no variable and not numeric is an
\* unknown token: when it is the first token of the input a bracketed parser raises
\* InvalidFormatError at its offset, and parse skips it and raises nothing.
NineSymbolsOnly_C8 ==
    /\ called \in Bracketed =>
          LET p == FirstTokenStart(expression, 0)
              token == SubSeq(expression, p + 1, TokenEnd(expression, p))
          IN  (Len(token) > 0 /\ ~ KnownToken(token)) =>
                  /\ res.status = "threw"
                  /\ res.err.name = "InvalidFormatError"
                  /\ res.err.hasPos
                  /\ res.err.pos = p
    /\ called = "parse" =>
          /\ res.status = "returned"
          /\ res.stack = ParseLoop(SelectSeq(Split(Trim(expression)), KnownToken), 1, <<>>).stack

(***************************************************************************)
(* C9  The arity of the Operation nodes.                                   *)
(***************************************************************************)
RECURSIVE ArityRespected(_)
\* every Operation of the tree has at least one operand, and as many as documented
ArityRespected(n) ==
    n.kind = "Operation" =>
        /\ Len(n.operands) >= 1
        /\ DocumentedArity(n.operationString) \in {0, Len(n.operands)}
        /\ \A i \in 1..Len(n.operands) : ArityRespected(n.operands[i])

\* C9: every Operation node that parse or parsePostfix builds, on the stack or
\* returned, has at least one operand and as many operands as its arity.
ArityInvariant_C9 ==
    (called \in {"parse", "parsePostfix"} /\ res.status = "returned") =>
        /\ ArityRespected(res.value)
        /\ \A i \in 1..Len(res.stack) : ArityRespected(res.stack[i])

(***************************************************************************)
(* C10  parse inverts toString on fixed-arity trees.                       *)
(***************************************************************************)
RECURSIVE FixedArityTree(_)
\* integer Constants, Variables and the seven operations of fixed arity
FixedArityTree(t) ==
    IF t.kind = "Const" THEN t.value.k = "int"
    ELSE IF t.kind = "Variable" THEN TRUE
    ELSE /\ t.operationString \in NineOperators \ {S_mean, S_var}
         /\ Len(t.operands) = DocumentedArity(t.operationString)
         /\ \A i \in 1..Len(t.operands) : FixedArityTree(t.operands[i])

\* C10: for a fixed-arity tree t, parse(t.toString()) ends with one node on its
\* stack and returns a tree that renders as t does.
ToStringParse_C10 ==
    (called = "parse" /\ tree # UndefinedValue /\ FixedArityTree(tree)) =>
        /\ res.status = "returned"
        /\ Len(res.stack) = 1
        /\ prefix(res.value) = prefix(tree)

====
